---------------------------- MODULE Spec2Model ----------------------------
(***************************************************************************)
(* Model of the schema migration runner of web-server-starter-kit          *)
(* (src/src/migrations/migrations.go) together with the part of the        *)
(* instrumented storage engine it drives (src/src/app/app.go): the         *)
(* migrations directory, the schema_migrations ledger, the schema that    *)
(* the scripts change, and one runner stepping through Up, Down, Status    *)
(* and Reset one database call at a time.                                  *)
(***************************************************************************)
EXTENDS Integers, Sequences, FiniteSets, TLC

(* ------------------------------ bounds -------------------------------- *)

\* Migration versions on disk are drawn from 1..MaxVersion.
MaxVersion == 2

(* --------------------------- the directory ---------------------------- *)

Versions == 1..MaxVersion

\* Leading filename tokens that strconv.Atoi accepts, with their values.
VersionToken(v) == ToString(v)

\* strconv.Atoi: a decimal with an optional sign is a number, whatever its
\* sign; anything else is an error.
AtoiRange == (0 - 1)..MaxVersion

Atoi(tok) ==
  IF \E v \in AtoiRange : ToString(v) = tok
    THEN [ok |-> TRUE, val |-> CHOOSE v \in AtoiRange : ToString(v) = tok]
    ELSE [ok |-> FALSE, val |-> 0]

UpSuffix == ".up.sql"
DownSuffix == ".down.sql"

\* File contents: " " is a file holding only whitespace, "sql" a file
\* holding statements.
Contents == {" ", "sql"}

TrimSpace(c) ==
  CASE c = " " -> ""
    [] c = " sql " -> "sql"
    [] OTHER -> c

\* A file of the migrations directory: its name, split at the first
\* underscore and the direction suffix, and its content.
FileNames == [vtok : {VersionToken(v) : v \in Versions},
              rest : {"a"},
              suffix : {UpSuffix, DownSuffix}]

Files == [name : FileNames, content : Contents]

\* Directories: at most one file per filename.
IsDirectory(d) == \A f, g \in d : f.name = g.name => f = g

Directories == {d \in SUBSET Files : IsDirectory(d)}

\* Files that are no migration: a version token that is no number, a
\* ".sql" file without direction, and a file that is not ".sql" at all.
InvalidFiles ==
  {[name |-> [vtok |-> "abc", rest |-> "a", suffix |-> UpSuffix], content |-> "sql"],
   [name |-> [vtok |-> VersionToken(1), rest |-> "a", suffix |-> ".sql"], content |-> "sql"],
   [name |-> [vtok |-> VersionToken(1), rest |-> "a", suffix |-> ".txt"], content |-> "sql"]}

\* Directories that mix migration files holding statements with files
\* that are no migration.
MixedDirectories ==
  {d \cup b : d \in {x \in Directories : \A f \in x : f.content = "sql"},
              b \in SUBSET InvalidFiles}

\* A basename as the parser sees it: a sequence of pieces of text in which
\* "_" stands for an underscore and no other piece contains one.  A name
\* written [vtok, rest] is vtok_rest; a name written [base] is its pieces.
BaseName(n) ==
  IF "base" \in DOMAIN n THEN n.base ELSE <<n.vtok, "_", n.rest>>

\* The text of a sequence of pieces.
RECURSIVE Str(_)
Str(s) == IF s = <<>> THEN "" ELSE Head(s) \o Str(Tail(s))

\* strings.Split(baseName, "_").
RECURSIVE Split(_)
Split(s) ==
  IF \A i \in 1..Len(s) : s[i] # "_" THEN <<s>>
  ELSE LET i == CHOOSE k \in 1..Len(s) : s[k] = "_" /\ \A j \in 1..(k - 1) : s[j] # "_"
       IN  <<SubSeq(s, 1, i - 1)>> \o Split(SubSeq(s, i + 1, Len(s)))

\* Mutant of Join: only the first part is kept.
Join_FirstOnly(parts) == IF parts = <<>> THEN <<>> ELSE Head(parts)

\* strings.Join(parts, "_").
RECURSIVE Join(_)
Join(parts) ==
  IF parts = <<>> THEN <<>>
  ELSE IF Len(parts) = 1 THEN Head(parts)
  ELSE Head(parts) \o <<"_">> \o Join(Tail(parts))

\* Files of version 1 under two names, each holding statements.
SameVersionFiles ==
  [name : [vtok : {VersionToken(1)}, rest : {"a", "b"},
           suffix : {UpSuffix, DownSuffix}],
   content : {"sql"}]

\* Up files whose leading token is -1, 0 or 1, and the down file of 1.
SignedFiles ==
  [name : [vtok : {"-1", "0", VersionToken(1)}, rest : {"a"}, suffix : {UpSuffix}],
   content : {"sql"}]
  \cup [name : [vtok : {VersionToken(1)}, rest : {"a"}, suffix : {DownSuffix}],
        content : {"sql"}]

\* Files whose basename is written piece by piece: with one underscore,
\* with several, with none, with nothing or an underscore after the first
\* one, and with a leading piece that is no number; their content holds
\* statements with or without whitespace around them, or whitespace only.
NameBases ==
  {<<"1", "_", "a">>, <<"1", "_", "a", "_", "b">>, <<"1", "_", "_", "a">>,
   <<"1", "_">>, <<"1">>, <<"1", "a">>, <<"a", "_", "1">>}

NameFiles ==
  [name : [base : NameBases, suffix : {UpSuffix, DownSuffix}],
   content : {" ", "sql", " sql "}]

\* The files that `make create-migration NAME=x` writes: NNN_x.sql, one
\* file for both directions, NNN counting the .sql files present.
MaxCreated == 2

MakeFiles ==
  [name : [vtok : {ToString(n) : n \in 1..(MaxVersion + MaxCreated)}, rest : {"x"},
           suffix : {".sql"}],
   content : {"sql"}]

\* Every file of the directories considered.
KnownFiles ==
  Files \cup InvalidFiles \cup SameVersionFiles \cup SignedFiles \cup NameFiles
    \cup MakeFiles

(* ----------------------------- the parser ----------------------------- *)

NoMigration == [Version |-> 0, Name |-> "", UpSQL |-> "", DownSQL |-> ""]

\* Mutant of ParseFile: a file that ends in plain ".sql" is taken
\* for an up file.
ParseFile_AnySql(f) ==
  LET isDownFile == f.name.suffix = DownSuffix
      isUpFile == ~isDownFile /\ f.name.suffix \in {UpSuffix, ".sql"}
      parts == Split(BaseName(f.name))
      version == Atoi(Str(Head(parts)))
  IN  IF ~(isUpFile \/ isDownFile)
        THEN [ok |-> FALSE, err |-> "InvalidFilename", m |-> NoMigration]
      ELSE IF Len(parts) < 2
        THEN [ok |-> FALSE, err |-> "InvalidFormat", m |-> NoMigration]
      ELSE IF ~version.ok
        THEN [ok |-> FALSE, err |-> "InvalidVersion", m |-> NoMigration]
      ELSE [ok |-> TRUE, err |-> "",
            m |-> [Version |-> version.val,
                   Name |-> Str(Join(Tail(parts))),
                   UpSQL |-> IF isUpFile THEN TrimSpace(f.content) ELSE "",
                   DownSQL |-> IF isDownFile THEN TrimSpace(f.content) ELSE ""]]

\* parseMigrationFile: one Migration per file, carrying only the script of
\* the file's own direction.
ParseFile(f) ==
  LET isUpFile == f.name.suffix = UpSuffix
      isDownFile == f.name.suffix = DownSuffix
      parts == Split(BaseName(f.name))
      version == Atoi(Str(Head(parts)))
  IN  IF ~(isUpFile \/ isDownFile)
        THEN [ok |-> FALSE, err |-> "InvalidFilename", m |-> NoMigration]
      ELSE IF Len(parts) < 2
        THEN [ok |-> FALSE, err |-> "InvalidFormat", m |-> NoMigration]
      ELSE IF ~version.ok
        THEN [ok |-> FALSE, err |-> "InvalidVersion", m |-> NoMigration]
      ELSE [ok |-> TRUE, err |-> "",
            m |-> [Version |-> version.val,
                   Name |-> Str(Join(Tail(parts))),
                   UpSQL |-> IF isUpFile THEN TrimSpace(f.content) ELSE "",
                   DownSQL |-> IF isDownFile THEN TrimSpace(f.content) ELSE ""]]

\* The parse of every known file, computed once.
RECURSIVE ParseAll(_)
ParseAll(F) ==
  IF F = {} THEN <<>>
  ELSE LET f == CHOOSE x \in F : TRUE
       IN  (f :> ParseFile(f)) @@ ParseAll(F \ {f})

Parsed == ParseAll(KnownFiles)

parseMigrationFile(f) == Parsed[f]

\* The suffixes that end in ".sql": the WalkDir callback passes only these
\* files to the parser and returns nil for every other entry.
SqlSuffixes == {UpSuffix, DownSuffix, ".sql"}

Walked(d) == {f \in d : f.name.suffix \in SqlSuffixes}

\* Mutant of Parseable: a file that does not parse ends the walk and
\* nothing is collected.
Parseable_AbortOnInvalid(d) ==
  IF \E f \in Walked(d) : ~parseMigrationFile(f).ok THEN {}
  ELSE Walked(d)

\* The files the WalkDir callback appends a Migration for: every walked
\* file that parses.
Parseable(d) == {f \in Walked(d) : parseMigrationFile(f).ok}

\* The files the callback logs "skipping invalid migration file" for.
Warned(d) == {f \in Walked(d) : ~parseMigrationFile(f).ok}

FileVersion(f) == parseMigrationFile(f).m.Version

MinVersion(F) == CHOOSE v \in {FileVersion(f) : f \in F} :
                   \A f \in F : v <= FileVersion(f)

\* sort.Slice by Version: every arrangement of the parsed files in which
\* versions never decrease.  Entries of equal version keep no particular
\* order (the walk order depends on the file names and sort.Slice is not
\* stable).
RECURSIVE SortedByVersion(_)
SortedByVersion(F) ==
  IF F = {} THEN {<<>>}
  ELSE LET G == {f \in F : FileVersion(f) = MinVersion(F)}
       IN  UNION {{<<f>> \o s : s \in SortedByVersion(F \ {f})} : f \in G}

\* loadMigrations: the possible results for directory d, one Migration per
\* parseable file.
loadMigrations(d) ==
  {[i \in 1..Len(s) |-> parseMigrationFile(s[i]).m] : s \in SortedByVersion(Parseable(d))}

(* ---------------------------- the database --------------------------- *)

\* One row of schema_migrations.
Row(v, n) == [version |-> v, name |-> n]

\* The database before anything ran: no ledger table, no schema objects.
EmptyDB == [table |-> FALSE, ledger |-> <<>>, schema |-> {}]

\* The versions that have a ledger row.
LedgerVersions(d) == {d.ledger[i].version : i \in 1..Len(d.ledger)}

\* The versions whose up-script effect is live in the schema.
LiveVersions(d) == {e.version : e \in {x \in d.schema : x.part = "up"}}

MaxOf(S) == CHOOSE v \in S : \A w \in S : w <= v

\* Statements staged in a transaction.
ScriptOp(v, dirn, whole) == [kind |-> "script", version |-> v, name |-> "", dirn |-> dirn, whole |-> whole]
InsertOp(v, n) == [kind |-> "insert", version |-> v, name |-> n, dirn |-> "up", whole |-> TRUE]
DeleteOp(v) == [kind |-> "delete", version |-> v, name |-> "", dirn |-> "down", whole |-> TRUE]

\* The effect of one statement on the database.  A script that ran to its
\* end makes (up) or removes (down) its version's schema objects; a script
\* that stopped at a failing statement leaves the part it got through.
ApplyOp(d, o) ==
  CASE o.kind = "script" /\ o.whole /\ o.dirn = "up" ->
         [d EXCEPT !.schema = @ \cup {[version |-> o.version, part |-> "up"]}]
    [] o.kind = "script" /\ o.whole /\ o.dirn = "down" ->
         [d EXCEPT !.schema = @ \ {[version |-> o.version, part |-> "up"]}]
    [] o.kind = "script" /\ ~o.whole ->
         [d EXCEPT !.schema = @ \cup {[version |-> o.version, part |-> "partial"]}]
    [] o.kind = "insert" ->
         [d EXCEPT !.ledger = Append(@, Row(o.version, o.name))]
    [] o.kind = "delete" ->
         [d EXCEPT !.ledger = SelectSeq(@, LAMBDA r : r.version # o.version)]

RECURSIVE ApplyOps(_, _)
ApplyOps(d, ops) ==
  IF ops = <<>> THEN d ELSE ApplyOps(ApplyOp(d, Head(ops)), Tail(ops))

\* Mutant of TxCommit: the ledger statements are not part of what commits.
TxCommit_ScriptOnly(d, ops) ==
  ApplyOps(d, SelectSeq(ops, LAMBDA o : o.kind = "script"))

\* sql.Tx.Commit: every staged statement takes effect at once.
TxCommit(d, ops) == ApplyOps(d, ops)

\* Mutant of TxRollback: the script's statements outlive the rollback.
TxRollback_KeepsScript(d, ops) ==
  ApplyOps(d, SelectSeq(ops, LAMBDA o : o.kind = "script"))

\* sql.Tx.Rollback: no staged statement takes effect.
TxRollback(d, ops) == d

\* Mutant of CreateTableIfNotExists: the table is created anew.
CreateTableIfNotExists_Recreates(d) == [d EXCEPT !.table = TRUE, !.ledger = <<>>]

\* CREATE TABLE IF NOT EXISTS schema_migrations: the rows are kept.
CreateTableIfNotExists(d) == [d EXCEPT !.table = TRUE]

\* Mutant of LastVersion: the row inserted last (ORDER BY applied_at DESC).
LastVersion_ByTime(d) == d.ledger[Len(d.ledger)].version

\* SELECT version FROM schema_migrations ORDER BY version DESC LIMIT 1, on a
\* ledger that has rows: the greatest version, whenever it was inserted.
LastVersion(d) == MaxOf(LedgerVersions(d))

\* SELECT version FROM schema_migrations ORDER BY version DESC
RECURSIVE Descending(_)
Descending(S) ==
  IF S = {} THEN <<>> ELSE <<MaxOf(S)>> \o Descending(S \ {MaxOf(S)})

(* ----------------------- pure steps of the runner --------------------- *)

\* Mutant of Pending: only the versions above the highest applied one are
\* pending.
Pending_AboveLast(migrations, applied) ==
  SelectSeq(migrations, LAMBDA m : \A a \in applied : m.Version > a)

\* Mutant of Pending: the applied versions are not filtered out.
Pending_IgnoreApplied(migrations, applied) == migrations

\* Up: the catalog entries whose version has no ledger row, in catalog order.
Pending(migrations, applied) ==
  SelectSeq(migrations, LAMBDA m : m.Version \notin applied)

\* Mutant of TargetMigration: without an entry of that version, the entry of
\* the nearest lower version is taken.
TargetMigration_Fallback(migrations, lastVersion) ==
  LET hits == SelectSeq(migrations, LAMBDA m : m.Version <= lastVersion)
  IN  IF hits = <<>> THEN <<>> ELSE <<hits[Len(hits)]>>

\* Down: the first catalog entry with the ledger's greatest version; <<>> when
\* there is none.
TargetMigration(migrations, lastVersion) ==
  LET hits == SelectSeq(migrations, LAMBDA m : m.Version = lastVersion)
  IN  IF hits = <<>> THEN <<>> ELSE <<Head(hits)>>

\* Reset: version -> Migration; a later catalog entry overwrites an earlier
\* one of the same version.
MigrationMap(migrations) ==
  [v \in {migrations[i].Version : i \in 1..Len(migrations)} |->
     LET hits == SelectSeq(migrations, LAMBDA m : m.Version = v)
     IN  hits[Len(hits)]]

\* Mutant of ResetWork: the loop ends at the first version the map does not
\* hold (break for continue).
RECURSIVE ResetWork_StopAtMissing(_, _)
ResetWork_StopAtMissing(versions, map) ==
  IF versions = <<>> THEN <<>>
  ELSE IF Head(versions) \in DOMAIN map
    THEN <<map[Head(versions)]>> \o ResetWork_StopAtMissing(Tail(versions), map)
    ELSE <<>>

\* Reset: the Migrations its loop hands to applyMigration, in loop order; a
\* version the map does not hold is passed over (continue).
RECURSIVE ResetWork(_, _)
ResetWork(versions, map) ==
  IF versions = <<>> THEN <<>>
  ELSE IF Head(versions) \in DOMAIN map
    THEN <<map[Head(versions)]>> \o ResetWork(Tail(versions), map)
    ELSE ResetWork(Tail(versions), map)

ResetSkipped(versions, map) ==
  {versions[i] : i \in 1..Len(versions)} \ DOMAIN map

\* applyMigration: the script of the requested direction.
SqlFor(m, dirn) == IF dirn = "up" THEN m.UpSQL ELSE m.DownSQL

\* Status: one logged entry per catalog entry.
StatusReport(migrations, applied) ==
  [i \in 1..Len(migrations) |->
     [version |-> migrations[i].Version, name |-> migrations[i].Name,
      status |-> IF migrations[i].Version \in applied THEN "applied" ELSE "pending"]]

(* ------------------------------- state -------------------------------- *)

Runners == {"r1"}

Ops == {"up", "down", "status", "reset"}

VARIABLES
  dir,          \* the migrations directory: a set of files
  db,           \* the committed state of the database
  run,          \* per runner: the operation in progress and its locals
  h,            \* per runner: what the operation in progress has done so far
  lastUpClean   \* the last finished operation was a successful Up and no file
                \* was added since

vars == <<dir, db, run, h, lastUpClean>>

IdleRunner ==
  [op |-> "none", pc |-> "idle", res |-> "none",
   migrations |-> <<>>, applied |-> {}, lastVersion |-> 0, versions |-> <<>>,
   work |-> <<>>, skipped |-> {}, idx |-> 0, dirn |-> "up",
   tx |-> <<>>, txOpen |-> FALSE, err |-> "none", report |-> <<>>,
   ctxDone |-> FALSE,
   errInfo |-> [has |-> {}, version |-> 0, name |-> "", direction |-> ""],
   response |-> <<>>]

NoHistory ==
  [begun |-> {}, execd |-> <<>>, db0 |-> EmptyDB, txdb |-> EmptyDB,
   faulted |-> FALSE, afterUp |-> FALSE, loaded |-> FALSE, read |-> FALSE,
   cancelledAt |-> 0, afterCancel |-> FALSE, bootstrapped |-> FALSE,
   committed |-> {}, doubled |-> FALSE, open |-> 0, answer |-> <<>>]

Init ==
  /\ dir \in Directories
  /\ db = EmptyDB
  /\ run = [r \in Runners |-> IdleRunner]
  /\ h = [r \in Runners |-> NoHistory]
  /\ lastUpClean = FALSE

\* The operation returns `kind` to its caller.
Returned(st, kind) == [st EXCEPT !.pc = "done", !.res = kind]

(* ------------------------------ actions ------------------------------- *)

\* The caller invokes Up, Down, Status or Reset.
Call(r, op) ==
  /\ run[r].pc = "idle"
  /\ run' = [run EXCEPT ![r] = [IdleRunner EXCEPT !.op = op, !.pc = "ensure",
                                                 !.dirn = IF op = "up" THEN "up" ELSE "down"]]
  /\ h' = [h EXCEPT ![r] = [NoHistory EXCEPT !.db0 = db, !.afterUp = lastUpClean,
                                              !.afterCancel = h[r].afterCancel]]
  /\ lastUpClean' = FALSE
  /\ UNCHANGED <<dir, db>>

\* ensureMigrationsTable, the first call of every operation.
AfterEnsure(op) == IF op \in {"up", "status"} THEN "load"
                   ELSE IF op = "down" THEN "queryLast" ELSE "queryAll"

\* Mutant of EnsureFailed: the operation goes on without the table check.
EnsureFailed_GoesOn(st) == [st EXCEPT !.pc = AfterEnsure(st.op)]

\* Every operation returns the error of ensureMigrationsTable at once.
EnsureFailed(st) == Returned(st, "bootstrap")

EnsureMigrationsTable(r) ==
  /\ run[r].pc = "ensure"
  /\ \/ /\ ~run[r].ctxDone
        /\ db' = CreateTableIfNotExists(db)
        /\ run' = [run EXCEPT ![r].pc = AfterEnsure(run[r].op)]
        /\ h' = [h EXCEPT ![r].bootstrapped = TRUE]
     \/ /\ run' = [run EXCEPT ![r] = EnsureFailed(@)]
        /\ h' = [h EXCEPT ![r].faulted = TRUE]
        /\ UNCHANGED db
  /\ UNCHANGED <<dir, lastUpClean>>

\* Mutant of DownAfterScan: "no rows" is returned as a failure of the query.
DownAfterScan_NoRowsIsError(st, d) ==
  IF LedgerVersions(d) = {}
    THEN Returned(st, "query")
    ELSE [st EXCEPT !.lastVersion = LastVersion(d), !.pc = "load"]

\* What Down does with the scanned row: without a row ("sql: no rows in
\* result set") it returns nil, with one it goes on to load the catalog.
DownAfterScan(st, d) ==
  IF LedgerVersions(d) = {}
    THEN Returned(st, "ok")
    ELSE [st EXCEPT !.lastVersion = LastVersion(d), !.pc = "load"]

\* Down: SELECT version ... ORDER BY version DESC LIMIT 1, then Scan.
QueryLast(r) ==
  /\ run[r].pc = "queryLast"
  /\ \/ /\ ~run[r].ctxDone
        /\ run' = [run EXCEPT ![r] = DownAfterScan(@, db)]
        /\ h' = [h EXCEPT ![r].read = TRUE]
     \/ /\ run' = [run EXCEPT ![r] = Returned(@, "query")]
        /\ h' = [h EXCEPT ![r].faulted = TRUE]
  /\ UNCHANGED <<dir, db, lastUpClean>>

\* Reset: SELECT version ... ORDER BY version DESC, then the Scan loop.
QueryAll(r) ==
  /\ run[r].pc = "queryAll"
  /\ \/ /\ ~run[r].ctxDone
        /\ LedgerVersions(db) = {}
        /\ run' = [run EXCEPT ![r] = Returned(@, "ok")]
        /\ h' = [h EXCEPT ![r].read = TRUE]
     \/ /\ ~run[r].ctxDone
        /\ LedgerVersions(db) # {}
        /\ run' = [run EXCEPT ![r].versions = Descending(LedgerVersions(db)),
                              ![r].pc = "load"]
        /\ h' = [h EXCEPT ![r].read = TRUE]
     \/ /\ run' = [run EXCEPT ![r] = Returned(@, "query")]
        /\ h' = [h EXCEPT ![r].faulted = TRUE]
  /\ UNCHANGED <<dir, db, lastUpClean>>

\* What the returned error tells about the migration that failed.  Up and
\* Down wrap the error of applyMigration with the verb of the direction,
\* the version and the name; Reset wraps it with the verb and the version.
ApplyErrorContext(st) ==
  LET m == st.work[st.idx]
  IN  IF st.op = "reset"
        THEN [has |-> {"version", "direction"}, version |-> m.Version,
              name |-> "", direction |-> st.dirn]
        ELSE [has |-> {"version", "name", "direction"}, version |-> m.Version,
              name |-> m.Name, direction |-> st.dirn]

\* Down's "migration file not found for version %d".
FileMissingContext(st) ==
  [has |-> {"version"}, version |-> st.lastVersion, name |-> "", direction |-> ""]

\* What Down does with the loaded catalog, up to its call of applyMigration.
DownAfterLoad(st, ms) ==
  LET target == TargetMigration(ms, st.lastVersion)
  IN  IF target = <<>>
        THEN Returned([st EXCEPT !.migrations = ms,
                                 !.errInfo = FileMissingContext(st)], "file_missing")
        ELSE [st EXCEPT !.migrations = ms, !.work = target, !.idx = 1, !.pc = "apply"]

\* What Reset does with the loaded catalog, up to its first call of
\* applyMigration.
ResetAfterLoad(st, ms) ==
  LET map == MigrationMap(ms)
      work == ResetWork(st.versions, map)
      st1 == [st EXCEPT !.migrations = ms, !.work = work,
                        !.skipped = ResetSkipped(st.versions, map)]
  IN  IF work = <<>> THEN Returned(st1, "ok")
      ELSE [st1 EXCEPT !.idx = 1, !.pc = "apply"]

\* loadMigrations, and the caller's use of the catalog.
LoadMigrations(r) ==
  /\ run[r].pc = "load"
  /\ \/ \E ms \in loadMigrations(dir) :
          /\ run' = [run EXCEPT ![r] =
                       CASE run[r].op = "down" -> DownAfterLoad(@, ms)
                         [] run[r].op = "reset" -> ResetAfterLoad(@, ms)
                         [] OTHER -> [@ EXCEPT !.migrations = ms, !.pc = "getApplied"]]
          /\ h' = [h EXCEPT ![r].loaded = TRUE]
     \/ /\ run' = [run EXCEPT ![r] = Returned(@, "load")]
        /\ h' = [h EXCEPT ![r].faulted = TRUE]
  /\ UNCHANGED <<dir, db, lastUpClean>>

\* Mutant of UpAfterRead: Up takes the first pending entry only.
UpAfterRead_FirstOnly(st, applied) ==
  LET pending == Pending(st.migrations, applied)
      st1 == [st EXCEPT !.applied = applied,
                        !.work = IF pending = <<>> THEN <<>> ELSE <<Head(pending)>>]
  IN  IF pending = <<>> THEN Returned(st1, "ok")
      ELSE [st1 EXCEPT !.idx = 1, !.pc = "apply"]

\* What Up does with the applied versions, up to its first call of
\* applyMigration.
UpAfterRead(st, applied) ==
  LET pending == Pending(st.migrations, applied)
      st1 == [st EXCEPT !.applied = applied, !.work = pending]
  IN  IF pending = <<>> THEN Returned(st1, "ok")
      ELSE [st1 EXCEPT !.idx = 1, !.pc = "apply"]

\* Mutant of StatusAfterRead: Status goes on to apply what it found
\* pending.
StatusAfterRead_Applies(st, applied) ==
  LET pending == Pending(st.migrations, applied)
      st1 == [st EXCEPT !.applied = applied, !.work = pending, !.dirn = "up",
                        !.report = StatusReport(st.migrations, applied)]
  IN  IF pending = <<>> THEN Returned(st1, "ok")
      ELSE [st1 EXCEPT !.idx = 1, !.pc = "apply"]

\* Mutant of StatusAfterRead: an applied version without a file is an
\* error.
StatusAfterRead_FailsOnUnknown(st, applied) ==
  IF \E v \in applied : \A i \in 1..Len(st.migrations) : st.migrations[i].Version # v
    THEN Returned([st EXCEPT !.applied = applied], "file_missing")
    ELSE Returned([st EXCEPT !.applied = applied,
                             !.report = StatusReport(st.migrations, applied)], "ok")

\* What Status does with the applied versions.
StatusAfterRead(st, applied) ==
  Returned([st EXCEPT !.applied = applied,
                      !.report = StatusReport(st.migrations, applied)], "ok")

\* getAppliedMigrations (Up and Status), and the caller's use of the result.
GetAppliedMigrations(r) ==
  /\ run[r].pc = "getApplied"
  /\ \/ /\ ~run[r].ctxDone
        /\ run' = [run EXCEPT ![r] =
                     IF run[r].op = "up" THEN UpAfterRead(@, LedgerVersions(db))
                     ELSE StatusAfterRead(@, LedgerVersions(db))]
        /\ h' = [h EXCEPT ![r].read = TRUE]
     \/ /\ run' = [run EXCEPT ![r] = Returned(@, "query")]
        /\ h' = [h EXCEPT ![r].faulted = TRUE]
  /\ UNCHANGED <<dir, db, lastUpClean>>

\* The caller's step after applyMigration returned nil: Up and Reset go on
\* to the next entry, Down is done.
AfterApply(st) ==
  IF st.idx < Len(st.work)
    THEN [st EXCEPT !.idx = @ + 1, !.pc = "apply"]
    ELSE Returned(st, "ok")

\* Mutant of AfterApplyError: the loop goes on to the next entry.
AfterApplyError_Continue(st) ==
  IF st.idx < Len(st.work)
    THEN [st EXCEPT !.idx = @ + 1, !.pc = "apply", !.err = "none"]
    ELSE Returned(st, st.err)

\* The caller's step after applyMigration returned an error: Up, Down and
\* Reset each return it at once.
AfterApplyError(st) ==
  Returned([st EXCEPT !.errInfo = ApplyErrorContext(st)], st.err)

\* Mutant of ApplyEntry: a migration without a script is passed over.
ApplyEntry_SkipEmpty(st) ==
  IF SqlFor(st.work[st.idx], st.dirn) = ""
    THEN AfterApply(st)
    ELSE [st EXCEPT !.txOpen = TRUE, !.tx = <<>>, !.err = "none", !.pc = "execScript"]

\* applyMigration up to engine.Begin: the script is picked and checked, then
\* the transaction is begun.
ApplyEntry(st) ==
  IF SqlFor(st.work[st.idx], st.dirn) = ""
    THEN Returned([st EXCEPT !.errInfo = ApplyErrorContext(st)], "missing_script")
    ELSE [st EXCEPT !.txOpen = TRUE, !.tx = <<>>, !.err = "none", !.pc = "execScript"]

ApplyMigrationBegin(r) ==
  /\ run[r].pc = "apply"
  /\ \/ /\ ~run[r].ctxDone \/ ~ApplyEntry(run[r]).txOpen
        /\ run' = [run EXCEPT ![r] = ApplyEntry(@)]
        /\ h' = [h EXCEPT ![r] =
                   IF ApplyEntry(run[r]).txOpen
                     THEN [@ EXCEPT !.begun = @ \cup {run[r].idx}, !.txdb = db,
                                    !.open = @ + 1]
                     ELSE @]
     \/ /\ SqlFor(run[r].work[run[r].idx], run[r].dirn) # ""
        /\ run' = [run EXCEPT ![r] =
                     Returned([run[r] EXCEPT !.errInfo = ApplyErrorContext(run[r])], "begin")]
        /\ h' = [h EXCEPT ![r].faulted = TRUE]
  /\ UNCHANGED <<dir, db, lastUpClean>>

\* Mutant of AfterScript: the ledger statement follows a failed script too.
AfterScript_Always(ok) == "execLedger"

\* After the script: the ledger statement when it succeeded, the return
\* (and with it the deferred Rollback) when it failed.
AfterScript(ok) == IF ok THEN "execLedger" ELSE "rollback"

\* tx.Exec of the script.  A failing script has run some of its statements
\* inside the transaction before the failing one.
ExecScript(r) ==
  /\ run[r].pc = "execScript"
  /\ LET m == run[r].work[run[r].idx]
     IN  /\ \/ /\ ~run[r].ctxDone
               /\ run' = [run EXCEPT ![r].tx = Append(@, ScriptOp(m.Version, run[r].dirn, TRUE)),
                                     ![r].pc = AfterScript(TRUE)]
               /\ h' = [h EXCEPT ![r].execd = Append(@, <<run[r].idx, m.Version, run[r].dirn>>)]
            \/ /\ run' = [run EXCEPT ![r].tx = Append(@, ScriptOp(m.Version, run[r].dirn, FALSE)),
                                     ![r].err = "exec",
                                     ![r].pc = AfterScript(FALSE)]
               /\ h' = [h EXCEPT ![r].execd = Append(@, <<run[r].idx, m.Version, run[r].dirn>>),
                                 ![r].faulted = TRUE]
  /\ UNCHANGED <<dir, db, lastUpClean>>

\* tx.Exec of the INSERT into (up) or DELETE from (down) schema_migrations.
\* version is the primary key: an INSERT of a version that has a row fails.
LedgerOp(m, dirn) ==
  IF dirn = "up" THEN InsertOp(m.Version, m.Name) ELSE DeleteOp(m.Version)

\* Mutant of InsertBlocked: the INSERT does not wait for another
\* transaction's row of the same version.
InsertBlocked_Never(r, m, dirn) == FALSE

\* version INTEGER PRIMARY KEY: an INSERT of a version that another open
\* transaction has inserted waits until that transaction is over.
InsertBlocked(r, m, dirn) ==
  /\ dirn = "up"
  /\ \E o \in DOMAIN run \ {r} :
       /\ run[o].txOpen
       /\ \E i \in 1..Len(run[o].tx) : run[o].tx[i] = InsertOp(m.Version, run[o].tx[i].name)

ExecLedger(r) ==
  /\ run[r].pc = "execLedger"
  /\ LET m == run[r].work[run[r].idx]
         dup == run[r].dirn = "up" /\ m.Version \in LedgerVersions(ApplyOps(db, run[r].tx))
     IN  \/ /\ ~dup /\ ~run[r].ctxDone
            /\ ~InsertBlocked(r, m, run[r].dirn)
            /\ run' = [run EXCEPT ![r].tx = Append(@, LedgerOp(m, run[r].dirn)),
                                  ![r].pc = "commit"]
            /\ UNCHANGED h
         \/ /\ run' = [run EXCEPT ![r].err = "ledger", ![r].pc = "rollback"]
            /\ h' = [h EXCEPT ![r].faulted = @ \/ ~dup]
  /\ UNCHANGED <<dir, db, lastUpClean>>

\* The versions whose row, and whose up-script, a transaction holds.
InsertedVersions(ops) ==
  {ops[i].version : i \in {j \in 1..Len(ops) : ops[j].kind = "insert"}}

ScriptedVersions(ops) ==
  {ops[i].version : i \in {j \in 1..Len(ops) : ops[j].kind = "script" /\ ops[j].dirn = "up"}}

\* tx.Commit.  Either way the transaction is over.
Commit(r) ==
  /\ run[r].pc = "commit"
  /\ \/ /\ ~run[r].ctxDone
        /\ db' = TxCommit(db, run[r].tx)
        /\ run' = [run EXCEPT ![r].tx = <<>>, ![r].txOpen = FALSE, ![r].pc = "rollback"]
        /\ h' = [h EXCEPT ![r].committed = @ \cup InsertedVersions(run[r].tx),
                          ![r].doubled = @ \/ ScriptedVersions(run[r].tx) \cap LiveVersions(db) # {},
                          ![r].open = @ - 1]
     \/ /\ db' = TxRollback(db, run[r].tx)
        /\ run' = [run EXCEPT ![r].tx = <<>>, ![r].txOpen = FALSE,
                              ![r].err = "commit", ![r].pc = "rollback"]
        /\ h' = [h EXCEPT ![r].faulted = TRUE, ![r].open = @ - 1]
  /\ UNCHANGED <<dir, lastUpClean>>

\* Mutant of OpenAfterRollback: the deferred Rollback ends no transaction.
OpenAfterRollback_Leaks(open, txOpen) == open

\* The number of open transactions after the deferred Rollback: it ends the
\* transaction unless Commit has ended it already.
OpenAfterRollback(open, txOpen) == IF txOpen THEN open - 1 ELSE open

\* The deferred tx.Rollback as applyMigration returns (a no-op once the
\* transaction is over), then the caller: every caller returns an error of
\* applyMigration at once.
DeferredRollback(r) ==
  /\ run[r].pc = "rollback"
  /\ db' = IF run[r].txOpen THEN TxRollback(db, run[r].tx) ELSE db
  /\ LET st == [run[r] EXCEPT !.tx = <<>>, !.txOpen = FALSE]
     IN  run' = [run EXCEPT ![r] = IF st.err # "none" THEN AfterApplyError(st)
                                   ELSE AfterApply(st)]
  /\ h' = [h EXCEPT ![r].open = OpenAfterRollback(@, run[r].txOpen)]
  /\ UNCHANGED <<dir, lastUpClean>>

\* The invocation is over: the process of the migration CLI exits.
Exit(r) ==
  /\ run[r].pc = "done"
  /\ run' = [run EXCEPT ![r] = IdleRunner]
  /\ h' = [h EXCEPT ![r] = [NoHistory EXCEPT !.afterCancel =
                               run[r].op = "up" /\ h[r].cancelledAt # 0]]
  /\ lastUpClean' = (run[r].op = "up" /\ run[r].res = "ok")
  /\ UNCHANGED <<dir, db>>

\* Between invocations the operator adds or deletes a migration file.
AllIdle == \A r \in Runners : run[r].pc = "idle"

AddFile(f) ==
  /\ AllIdle
  /\ f \notin dir
  /\ IsDirectory(dir \cup {f})
  /\ dir' = dir \cup {f}
  /\ lastUpClean' = FALSE
  /\ UNCHANGED <<db, run, h>>

RemoveFile(f) ==
  /\ AllIdle
  /\ f \in dir
  /\ dir' = dir \ {f}
  /\ UNCHANGED <<db, run, h, lastUpClean>>

Next ==
  \/ \E r \in Runners, op \in Ops : Call(r, op)
  \/ \E r \in Runners : EnsureMigrationsTable(r)
  \/ \E r \in Runners : QueryLast(r)
  \/ \E r \in Runners : QueryAll(r)
  \/ \E r \in Runners : LoadMigrations(r)
  \/ \E r \in Runners : GetAppliedMigrations(r)
  \/ \E r \in Runners : ApplyMigrationBegin(r)
  \/ \E r \in Runners : ExecScript(r)
  \/ \E r \in Runners : ExecLedger(r)
  \/ \E r \in Runners : Commit(r)
  \/ \E r \in Runners : DeferredRollback(r)
  \/ \E r \in Runners : Exit(r)
  \/ \E f \in Files : AddFile(f)
  \/ \E f \in Files : RemoveFile(f)

Spec == Init /\ [][Next]_vars

(* ------------------- the runner over a mixed directory ---------------- *)

\* The runner over a directory that may hold files that are no migration;
\* the directory is not edited while it runs.
InitCatalog ==
  /\ dir \in MixedDirectories
  /\ db = EmptyDB
  /\ run = [r \in Runners |-> IdleRunner]
  /\ h = [r \in Runners |-> NoHistory]
  /\ lastUpClean = FALSE

NextCatalog ==
  \/ \E r \in Runners, op \in Ops : Call(r, op)
  \/ \E r \in Runners : EnsureMigrationsTable(r)
  \/ \E r \in Runners : QueryLast(r)
  \/ \E r \in Runners : QueryAll(r)
  \/ \E r \in Runners : LoadMigrations(r)
  \/ \E r \in Runners : GetAppliedMigrations(r)
  \/ \E r \in Runners : ApplyMigrationBegin(r)
  \/ \E r \in Runners : ExecScript(r)
  \/ \E r \in Runners : ExecLedger(r)
  \/ \E r \in Runners : Commit(r)
  \/ \E r \in Runners : DeferredRollback(r)
  \/ \E r \in Runners : Exit(r)

SpecCatalog == InitCatalog /\ [][NextCatalog]_vars

(* ------------- the runner over files that share a version ------------ *)

InitSameVersion ==
  /\ dir \in {d \in SUBSET SameVersionFiles : IsDirectory(d)}
  /\ db = EmptyDB
  /\ run = [r \in Runners |-> IdleRunner]
  /\ h = [r \in Runners |-> NoHistory]
  /\ lastUpClean = FALSE

NextSameVersion ==
  \/ \E r \in Runners, op \in Ops : Call(r, op)
  \/ \E r \in Runners : EnsureMigrationsTable(r)
  \/ \E r \in Runners : QueryLast(r)
  \/ \E r \in Runners : QueryAll(r)
  \/ \E r \in Runners : LoadMigrations(r)
  \/ \E r \in Runners : GetAppliedMigrations(r)
  \/ \E r \in Runners : ApplyMigrationBegin(r)
  \/ \E r \in Runners : ExecScript(r)
  \/ \E r \in Runners : ExecLedger(r)
  \/ \E r \in Runners : Commit(r)
  \/ \E r \in Runners : DeferredRollback(r)
  \/ \E r \in Runners : Exit(r)
  \/ \E f \in SameVersionFiles : AddFile(f)
  \/ \E f \in SameVersionFiles : RemoveFile(f)

SpecSameVersion == InitSameVersion /\ [][NextSameVersion]_vars

(* ------------------ the runner under a caller deadline ---------------- *)

\* The context of the invocation is done: its deadline expired or it was
\* cancelled.  Every later database call of the invocation fails, and
\* database/sql rolls back a transaction begun under the context.
Cancel(r) ==
  /\ run[r].pc \notin {"idle", "done"}
  /\ ~run[r].ctxDone
  /\ run' = [run EXCEPT ![r].ctxDone = TRUE]
  /\ h' = [h EXCEPT ![r].cancelledAt = IF run[r].txOpen THEN run[r].idx ELSE 0]
  /\ UNCHANGED <<dir, db, lastUpClean>>

NextDeadline ==
  \/ \E r \in Runners, op \in Ops : Call(r, op)
  \/ \E r \in Runners : EnsureMigrationsTable(r)
  \/ \E r \in Runners : QueryLast(r)
  \/ \E r \in Runners : QueryAll(r)
  \/ \E r \in Runners : LoadMigrations(r)
  \/ \E r \in Runners : GetAppliedMigrations(r)
  \/ \E r \in Runners : ApplyMigrationBegin(r)
  \/ \E r \in Runners : ExecScript(r)
  \/ \E r \in Runners : ExecLedger(r)
  \/ \E r \in Runners : Commit(r)
  \/ \E r \in Runners : DeferredRollback(r)
  \/ \E r \in Runners : Exit(r)
  \/ \E r \in Runners : Cancel(r)

SpecDeadline == Init /\ [][NextDeadline]_vars

(* ------------------- two invocations at the same time ---------------- *)

\* Two processes of the migration CLI run Up against the same database and
\* the same directory of up files.
TwoRunners == {"r1", "r2"}

UpDirectories ==
  {d \in Directories : \A f \in d : f.name.suffix = UpSuffix /\ f.content = "sql"}

InitConcurrent ==
  /\ dir \in UpDirectories
  /\ db = EmptyDB
  /\ run = [r \in TwoRunners |-> IdleRunner]
  /\ h = [r \in TwoRunners |-> NoHistory]
  /\ lastUpClean = FALSE

NextConcurrent ==
  \/ \E r \in TwoRunners : Call(r, "up")
  \/ \E r \in TwoRunners : EnsureMigrationsTable(r)
  \/ \E r \in TwoRunners : LoadMigrations(r)
  \/ \E r \in TwoRunners : GetAppliedMigrations(r)
  \/ \E r \in TwoRunners : ApplyMigrationBegin(r)
  \/ \E r \in TwoRunners : ExecScript(r)
  \/ \E r \in TwoRunners : ExecLedger(r)
  \/ \E r \in TwoRunners : Commit(r)
  \/ \E r \in TwoRunners : DeferredRollback(r)
  \/ \E r \in TwoRunners : Exit(r)

SpecConcurrent == InitConcurrent /\ [][NextConcurrent]_vars

(* ----------------- the runner over signed version tokens -------------- *)

InitSigned ==
  /\ dir \in SUBSET SignedFiles
  /\ db = EmptyDB
  /\ run = [r \in Runners |-> IdleRunner]
  /\ h = [r \in Runners |-> NoHistory]
  /\ lastUpClean = FALSE

SpecSigned == InitSigned /\ [][NextCatalog]_vars

(* --------------------- the runner over spelled names ------------------ *)

\* The runner over a directory of one file whose name is written piece by
\* piece.
InitNames ==
  /\ dir \in {{f} : f \in NameFiles}
  /\ db = EmptyDB
  /\ run = [r \in Runners |-> IdleRunner]
  /\ h = [r \in Runners |-> NoHistory]
  /\ lastUpClean = FALSE

SpecNames == InitNames /\ [][NextCatalog]_vars

(* ---------------------- make create-migration ------------------------ *)

\* NEXT_NUM of the recipe: the number of .sql files present, plus one.
NextNum(d) == Cardinality({f \in d : f.name.suffix \in SqlSuffixes}) + 1

\* make create-migration NAME=x, between invocations of the runner.
CreateMigration ==
  /\ AllIdle
  /\ NextNum(dir) <= MaxVersion + MaxCreated
  /\ dir' = dir \cup {[name |-> [vtok |-> ToString(NextNum(dir)), rest |-> "x",
                                  suffix |-> ".sql"],
                        content |-> "sql"]}
  /\ lastUpClean' = FALSE
  /\ UNCHANGED <<db, run, h>>

InitMake ==
  /\ dir \in UpDirectories
  /\ db = EmptyDB
  /\ run = [r \in Runners |-> IdleRunner]
  /\ h = [r \in Runners |-> NoHistory]
  /\ lastUpClean = FALSE

NextMake ==
  \/ NextCatalog
  \/ CreateMigration

SpecMake == InitMake /\ [][NextMake]_vars

(* --------------------------- the command line ------------------------- *)

\* The lines an operator may type at the prompt of the reset command, as
\* sequences of characters, without the newline that ends them.
Answers ==
  {<<>>, <<"y">>, <<"Y">>, <<"n">>, <<"N">>, <<"y", "e", "s">>,
   <<" ", "y">>, <<"y", " ", "n">>, <<"Y", " ", "n", "o">>}

RECURSIVE DropSpaces(_)
DropSpaces(line) ==
  IF line # <<>> /\ Head(line) = " " THEN DropSpaces(Tail(line)) ELSE line

RECURSIVE Token(_)
Token(line) ==
  IF line = <<>> \/ Head(line) = " " THEN <<>>
  ELSE <<Head(line)>> \o Token(Tail(line))

\* fmt.Scanln(&response): leading spaces are skipped and the characters up
\* to the next space or the end of the line are stored; what follows makes
\* Scanln return an error, which main does not look at.
Scanln(line) == Token(DropSpaces(line))

\* main: response != "y" && response != "Y" cancels the reset.
Confirmed(response) == response \in {<<"y">>, <<"Y">>}

\* The commands up, down and status: the Migrator's method is called.
CliCommand(r, op) ==
  /\ op # "reset"
  /\ Call(r, op)

\* The command reset: the prompt, the operator's line, and then either the
\* call of Migrator.Reset or "Migration reset cancelled" and return.
CliReset(r, answer) ==
  /\ run[r].pc = "idle"
  /\ LET response == Scanln(answer)
     IN  IF Confirmed(response)
           THEN /\ run' = [run EXCEPT ![r] =
                             [IdleRunner EXCEPT !.op = "reset", !.pc = "ensure",
                                                !.dirn = "down", !.response = response]]
                /\ h' = [h EXCEPT ![r] =
                           [NoHistory EXCEPT !.db0 = db, !.afterUp = lastUpClean,
                                             !.afterCancel = h[r].afterCancel,
                                             !.answer = answer]]
           ELSE /\ run' = [run EXCEPT ![r] =
                             [IdleRunner EXCEPT !.pc = "cancelled", !.response = response]]
                /\ h' = [h EXCEPT ![r] = [NoHistory EXCEPT !.db0 = db, !.answer = answer]]
  /\ lastUpClean' = FALSE
  /\ UNCHANGED <<dir, db>>

\* main returns after a cancelled reset: the deferred Close calls run and
\* the process ends with status 0.
CliCancelled(r) ==
  /\ run[r].pc = "cancelled"
  /\ run' = [run EXCEPT ![r] = IdleRunner]
  /\ h' = [h EXCEPT ![r] = NoHistory]
  /\ UNCHANGED <<dir, db, lastUpClean>>

NextCli ==
  \/ \E r \in Runners, op \in Ops : CliCommand(r, op)
  \/ \E r \in Runners, answer \in Answers : CliReset(r, answer)
  \/ \E r \in Runners : CliCancelled(r)
  \/ \E r \in Runners : EnsureMigrationsTable(r)
  \/ \E r \in Runners : QueryLast(r)
  \/ \E r \in Runners : QueryAll(r)
  \/ \E r \in Runners : LoadMigrations(r)
  \/ \E r \in Runners : GetAppliedMigrations(r)
  \/ \E r \in Runners : ApplyMigrationBegin(r)
  \/ \E r \in Runners : ExecScript(r)
  \/ \E r \in Runners : ExecLedger(r)
  \/ \E r \in Runners : Commit(r)
  \/ \E r \in Runners : DeferredRollback(r)
  \/ \E r \in Runners : Exit(r)

SpecCli == Init /\ [][NextCli]_vars

(* ------------------ the instrumented storage engine ------------------- *)

\* The number of database calls one history follows.
MaxCalls == 2

\* The calls the runner makes on the engine and on its transactions.
Calls == {"Exec", "Query", "QueryRow", "Begin", "TxExec", "Commit", "Rollback"}

\* The calls that report an error to their caller; QueryRow returns a Row.
CallErrors(call) == IF call = "QueryRow" THEN {FALSE} ELSE BOOLEAN

\* The Agent methods an instrumented call invokes after its database call,
\* in the order of the code. A failed Begin returns after its Increment.
MetricsFor(call, err) ==
  CASE call \in {"Exec", "TxExec"} ->
         IF err THEN <<"Increment", "Timing">>
                ELSE <<"Increment", "Count", "Timing">>
    [] call \in {"Query", "Commit", "Rollback"} -> <<"Increment", "Timing">>
    [] call = "QueryRow" -> <<"Timing", "Increment">>
    [] call = "Begin" ->
         IF err THEN <<"Increment">> ELSE <<"Increment", "Timing">>

\* NewAgent: with metrics disabled the agent has no client; with metrics
\* enabled it has the client statsd.New returned.
AgentOf(enabled) ==
  [Enabled |-> enabled, client |-> IF enabled THEN "statsd" ELSE "nil"]

\* agent.Timing: panic("unimplemented"), whatever the configuration.
Timing(a) == {"panics"}

\* agent.Increment, agent.Count and agent.Gauge forward to a.client. On an
\* agent without a client the library method runs on a nil *statsd.Client;
\* the library is not part of the repository, so either outcome is taken.
Forwarded(a) == IF a.client = "nil" THEN {"returns", "panics"} ELSE {"returns"}

\* The outcomes of one Agent method.
AgentMethod(a, method) == IF method = "Timing" THEN Timing(a) ELSE Forwarded(a)

NoCall ==
  [agent |-> AgentOf(FALSE), pc |-> "start", call |-> "none", err |-> FALSE,
   todo |-> <<>>]

NoCalls == [issued |-> 0, returned |-> 0, panicked |-> 0, dbDone |-> FALSE]

\* main: metrics.NewAgent(cfg.Metrics, lgr); a client that cannot be
\* created ends the process (log.Fatalf).
NewAgent(r, enabled) ==
  /\ run[r].pc = "start"
  /\ \/ run' = [run EXCEPT ![r].agent = AgentOf(enabled), ![r].pc = "idle"]
     \/ enabled /\ run' = [run EXCEPT ![r].pc = "exit"]
  /\ UNCHANGED <<dir, db, h, lastUpClean>>

\* The runner calls the engine or a transaction.
IssueCall(r, call) ==
  /\ run[r].pc = "idle"
  /\ h[r].issued < MaxCalls
  /\ run' = [run EXCEPT ![r].call = call, ![r].pc = "db"]
  /\ h' = [h EXCEPT ![r].issued = @ + 1, ![r].dbDone = FALSE]
  /\ UNCHANGED <<dir, db, lastUpClean>>

\* The database/sql call inside the instrumented one: it returns before any
\* metric is emitted.
DbCall(r) ==
  /\ run[r].pc = "db"
  /\ \E err \in CallErrors(run[r].call) :
       run' = [run EXCEPT ![r].err = err, ![r].pc = "metrics",
                          ![r].todo = MetricsFor(run[r].call, err)]
  /\ h' = [h EXCEPT ![r].dbDone = TRUE]
  /\ UNCHANGED <<dir, db, lastUpClean>>

\* The next Agent method of the instrumented call.
Metric(r) ==
  /\ run[r].pc = "metrics"
  /\ run[r].todo # <<>>
  /\ \E out \in AgentMethod(run[r].agent, Head(run[r].todo)) :
       \/ /\ out = "returns"
          /\ run' = [run EXCEPT ![r].todo = Tail(@)]
          /\ h' = h
       \/ /\ out = "panics"
          /\ run' = [run EXCEPT ![r].pc = "panicked"]
          /\ h' = [h EXCEPT ![r].panicked = @ + 1]
  /\ UNCHANGED <<dir, db, lastUpClean>>

\* The instrumented call returns its result and error to the runner.
CallReturns(r) ==
  /\ run[r].pc = "metrics"
  /\ run[r].todo = <<>>
  /\ run' = [run EXCEPT ![r].pc = "idle", ![r].call = "none", ![r].err = FALSE]
  /\ h' = [h EXCEPT ![r].returned = @ + 1]
  /\ UNCHANGED <<dir, db, lastUpClean>>

\* The operator runs the command again after the process ended.
Restart(r) ==
  /\ run[r].pc \in {"panicked", "exit"}
  /\ run' = [run EXCEPT ![r] = NoCall]
  /\ UNCHANGED <<dir, db, h, lastUpClean>>

InitMetrics ==
  /\ dir = {}
  /\ db = EmptyDB
  /\ run = [r \in Runners |-> NoCall]
  /\ h = [r \in Runners |-> NoCalls]
  /\ lastUpClean = FALSE

NextMetrics ==
  \/ \E r \in Runners, enabled \in BOOLEAN : NewAgent(r, enabled)
  \/ \E r \in Runners, call \in Calls : IssueCall(r, call)
  \/ \E r \in Runners : DbCall(r)
  \/ \E r \in Runners : Metric(r)
  \/ \E r \in Runners : CallReturns(r)
  \/ \E r \in Runners : Restart(r)

SpecMetrics == InitMetrics /\ [][NextMetrics]_vars

(* --------------------------- the configuration ------------------------ *)

Passwords == {"secret", "hunter2", "***"}

Drivers == {"postgres", "mysql", "sqlite3", "oracle"}

\* Config.Database is a *DatabaseConfig: the Config holds the address of the
\* DatabaseConfig, and the heap holds the DatabaseConfig itself.
Addresses == {"d1"}

\* DatabaseConfig.GetDSN: the postgres and mysql strings carry the password,
\* the sqlite one is the database name, any other driver gives "".
GetDSN(d) ==
  CASE d.Driver \in {"postgres", "postgresql"} ->
         [format |-> "postgres", password |-> d.Password]
    [] d.Driver = "mysql" -> [format |-> "mysql", password |-> d.Password]
    [] d.Driver \in {"sqlite", "sqlite3"} -> [format |-> "sqlite", password |-> ""]
    [] OTHER -> [format |-> "", password |-> ""]

\* yaml.Marshal of a Config: the fields of the DatabaseConfig it points to.
Marshal(c, heap) ==
  [driver |-> heap[c.Database].Driver, password |-> heap[c.Database].Password]

\* masked := *c copies the Config struct, the pointer Database with it.
CopyOf(c) == [Database |-> c.Database]

\* masked.Database.Password = "***": an assignment through the pointer.
MaskPassword(heap, c) == [heap EXCEPT ![c.Database].Password = "***"]

NoConfig ==
  [pc |-> "start", cfg |-> [Database |-> "d1"],
   heap |-> [a \in Addresses |-> [Driver |-> "", Password |-> ""]],
   rendered |-> [driver |-> "", password |-> ""],
   dsn |-> [format |-> "", password |-> ""]]

NoConfigCalls == [password |-> "", strings |-> 0, dsns |-> 0, dsnAfterString |-> FALSE]

\* config.LoadFromFile: a Config whose Database section names a driver and
\* a password.
LoadConfig(r, driver, password) ==
  /\ run[r].pc = "start"
  /\ run' = [run EXCEPT ![r].pc = "loaded",
                        ![r].heap = [a \in Addresses |->
                                       [Driver |-> driver, Password |-> password]]]
  /\ h' = [h EXCEPT ![r].password = password]
  /\ UNCHANGED <<dir, db, lastUpClean>>

\* Config.String
ConfigString(r) ==
  /\ run[r].pc = "loaded"
  /\ h[r].strings < MaxCalls
  /\ LET masked == CopyOf(run[r].cfg)
         heap == MaskPassword(run[r].heap, masked)
     IN  run' = [run EXCEPT ![r].heap = heap,
                            ![r].rendered = Marshal(masked, heap)]
  /\ h' = [h EXCEPT ![r].strings = @ + 1, ![r].dsnAfterString = FALSE]
  /\ UNCHANGED <<dir, db, lastUpClean>>

\* cfg.Database.GetDSN(), as NewEngine calls it.
BuildDSN(r) ==
  /\ run[r].pc = "loaded"
  /\ h[r].dsns < MaxCalls
  /\ run' = [run EXCEPT ![r].dsn = GetDSN(run[r].heap[run[r].cfg.Database])]
  /\ h' = [h EXCEPT ![r].dsns = @ + 1, ![r].dsnAfterString = h[r].strings > 0]
  /\ UNCHANGED <<dir, db, lastUpClean>>

InitConfig ==
  /\ dir = {}
  /\ db = EmptyDB
  /\ run = [r \in Runners |-> NoConfig]
  /\ h = [r \in Runners |-> NoConfigCalls]
  /\ lastUpClean = FALSE

NextConfig ==
  \/ \E r \in Runners, driver \in Drivers, password \in Passwords :
       LoadConfig(r, driver, password)
  \/ \E r \in Runners : ConfigString(r)
  \/ \E r \in Runners : BuildDSN(r)

SpecConfig == InitConfig /\ [][NextConfig]_vars

(* ------------------------------- claims ------------------------------- *)

\* The results with which a failed transaction of applyMigration returns.
TxFailures == {"exec", "ledger", "commit"}

\* C1: for either direction, when the script, the ledger insert/delete or
\* the commit of a migration's transaction fails, then once applyMigration
\* has returned the ledger and the schema are what they were when that
\* transaction began.
C1_FailedTransactionLeavesNoTrace ==
  \A r \in Runners :
    (run[r].pc = "done" /\ run[r].res \in TxFailures) => db = h[r].txdb

\* A Down whose commit failed while the ledger held rows.
C1_Witness ==
  \E r \in Runners :
    /\ run[r].pc = "done" /\ run[r].res = "commit" /\ run[r].dirn = "down"
    /\ db.ledger # <<>>
    /\ h[r].execd # <<>>

\* Directories in which every file holds statements and every version has
\* an up file.
AllScripts(d) ==
  /\ d # {}
  /\ \A f \in d : TrimSpace(f.content) # ""
  /\ \A f \in d : \E g \in d : g.name.vtok = f.name.vtok /\ g.name.suffix = UpSuffix

CatalogVersions(d) == {FileVersion(f) : f \in Parseable(d)}

Ascending(ledger) ==
  \A i, j \in 1..Len(ledger) : i < j => ledger[i].version < ledger[j].version

\* C2: Up on an empty ledger, with scripts that run without a database
\* error, returns success and leaves a ledger holding exactly the catalog's
\* versions, committed in ascending version order.
C2_UpFromEmptyLedgerAppliesAll ==
  \A r \in Runners :
    (/\ run[r].pc = "done" /\ run[r].op = "up"
     /\ h[r].db0.ledger = <<>> /\ ~h[r].faulted
     /\ AllScripts(dir))
    => /\ run[r].res = "ok"
       /\ LedgerVersions(db) = CatalogVersions(dir)
       /\ Ascending(db.ledger)

FileOf(d, v, suffix) ==
  {f \in Parseable(d) : FileVersion(f) = v /\ f.name.suffix = suffix}

ScriptOf(d, v, suffix) ==
  IF FileOf(d, v, suffix) = {} THEN ""
  ELSE TrimSpace((CHOOSE f \in FileOf(d, v, suffix) : TRUE).content)

\* C3: after catalog load every version with files on disk is one
\* Migration, carrying the up file's text as up-script and the down file's
\* text as down-script, empty on a side that has no file.
C3_OneMigrationPerVersion ==
  \A r \in Runners :
    (h[r].loaded /\ run[r].res # "load") =>
      \A v \in CatalogVersions(dir) :
        \E i \in 1..Len(run[r].migrations) :
          /\ run[r].migrations[i].Version = v
          /\ run[r].migrations[i].UpSQL = ScriptOf(dir, v, UpSuffix)
          /\ run[r].migrations[i].DownSQL = ScriptOf(dir, v, DownSuffix)
          /\ \A j \in 1..Len(run[r].migrations) :
               run[r].migrations[j].Version = v => j = i

\* C4: a successful Down on a ledger with rows removes exactly the row of
\* the greatest version, whatever the order the rows were inserted in, and
\* leaves every other row as it was.
C4_DownRemovesMaxVersion ==
  \A r \in Runners :
    (/\ run[r].pc = "done" /\ run[r].op = "down" /\ run[r].res = "ok"
     /\ h[r].db0.ledger # <<>>)
    => /\ Len(db.ledger) = Len(h[r].db0.ledger) - 1
       /\ db.ledger = SelectSeq(h[r].db0.ledger,
                                LAMBDA row : row.version # MaxOf(LedgerVersions(h[r].db0)))

\* A successful Down on a ledger whose greatest version was not the row
\* inserted last.
C4_Witness ==
  \E r \in Runners :
    /\ run[r].pc = "done" /\ run[r].op = "down" /\ run[r].res = "ok"
    /\ Len(h[r].db0.ledger) = 2
    /\ h[r].db0.ledger[1].version > h[r].db0.ledger[2].version
    /\ Len(db.ledger) = 1

\* The results an operation returns before it reaches applyMigration.
SetupFailures == {"bootstrap", "load", "query"}

\* C5: an Up that follows a successful Up, with no file added in between,
\* finds nothing pending: it begins no transaction, executes no script,
\* leaves the database as it found it, and returns success unless one of
\* its own database or directory reads fails.
C5_SecondUpDoesNothing ==
  \A r \in Runners :
    (run[r].op = "up" /\ h[r].afterUp) =>
      /\ h[r].begun = {} /\ h[r].execd = <<>> /\ ~run[r].txOpen
      /\ db.ledger = h[r].db0.ledger /\ db.schema = h[r].db0.schema
      /\ run[r].pc = "done" =>
           \/ run[r].res = "ok" /\ run[r].work = <<>> /\ h[r].read
           \/ run[r].res \in SetupFailures /\ h[r].faulted

\* A second Up that returned success on a ledger with rows.
C5_Witness ==
  \E r \in Runners :
    /\ run[r].op = "up" /\ h[r].afterUp
    /\ run[r].pc = "done" /\ run[r].res = "ok"
    /\ run[r].migrations # <<>> /\ db.ledger # <<>>

\* A directory holding one migration: an up file and a down file of one
\* version, both with statements.
SinglePair(d) ==
  /\ AllScripts(d)
  /\ Cardinality(d) = 2
  /\ Cardinality(CatalogVersions(d)) = 1
  /\ \E f \in d : f.name.suffix = DownSuffix

\* C6: with a single migration (up file and down file), Up on the empty
\* ledger succeeds and applies it, and the Down that follows succeeds,
\* leaves the ledger empty again and the up-script's schema effect undone.
C6_UpThenDownRoundTrip ==
  \A r \in Runners :
    (run[r].pc = "done" /\ ~h[r].faulted /\ SinglePair(dir)) =>
      /\ (run[r].op = "up" /\ h[r].db0.ledger = <<>>) =>
           /\ run[r].res = "ok"
           /\ LedgerVersions(db) = CatalogVersions(dir)
           /\ LiveVersions(db) = CatalogVersions(dir)
      /\ (run[r].op = "down" /\ LedgerVersions(h[r].db0) = CatalogVersions(dir)) =>
           /\ run[r].res = "ok"
           /\ db.ledger = <<>>
           /\ db.schema = {}

\* The directory of the scenario: versions 1 and 2, each with an up and a
\* down file.
ScenarioDir(d) ==
  /\ AllScripts(d)
  /\ CatalogVersions(d) = {1, 2}
  /\ Cardinality(d) = 4

StatusOf(report, v) ==
  {report[i].status : i \in {j \in 1..Len(report) : report[j].version = v}}

\* C7: in the scenario, Status on the empty ledger reports 1 and 2 pending;
\* Up applies 1 then 2; Down on that ledger runs version 2's down-script
\* and removes only its row; Status then reports 1 applied and 2 pending.
C7_Scenario ==
  \A r \in Runners :
    (run[r].pc = "done" /\ ~h[r].faulted /\ ScenarioDir(dir)) =>
      /\ (run[r].op = "status" /\ LedgerVersions(db) = {}) =>
           StatusOf(run[r].report, 1) = {"pending"} /\ StatusOf(run[r].report, 2) = {"pending"}
      /\ (run[r].op = "up" /\ h[r].db0.ledger = <<>>) =>
           /\ run[r].res = "ok"
           /\ db.ledger = <<Row(1, "a"), Row(2, "a")>>
      /\ (run[r].op = "down" /\ h[r].db0.ledger = <<Row(1, "a"), Row(2, "a")>>) =>
           /\ run[r].res = "ok"
           /\ h[r].execd = <<<<1, 2, "down">>>>
           /\ db.ledger = <<Row(1, "a")>>
      /\ (run[r].op = "status" /\ LedgerVersions(db) = {1}) =>
           StatusOf(run[r].report, 1) = {"applied"} /\ StatusOf(run[r].report, 2) = {"pending"}

\* The results with which applyMigration fails.
ApplyFailures == TxFailures \cup {"missing_script", "begin"}

\* C8: when applying the k-th pending migration fails, Up returns that
\* error, has begun no transaction and executed no script for a pending
\* migration after the k-th, and every pending migration before the k-th
\* is committed in the ledger.
C8_UpFailFast ==
  \A r \in Runners :
    run[r].op = "up" =>
      /\ h[r].begun \subseteq 1..run[r].idx
      /\ \A i \in 1..Len(h[r].execd) : h[r].execd[i][1] <= run[r].idx
      /\ (run[r].pc = "done" /\ run[r].res \in ApplyFailures) =>
           /\ \A j \in 1..(run[r].idx - 1) :
                /\ run[r].work[j].Version \in LedgerVersions(db)
                /\ j \in h[r].begun
           /\ run[r].idx \in 1..Len(run[r].work)
      /\ (run[r].pc = "done" /\ run[r].res = "ok") => h[r].begun = 1..Len(run[r].work)

\* An Up that failed at its second pending migration of three.
C8_Witness ==
  \E r \in Runners :
    /\ run[r].op = "up" /\ run[r].pc = "done" /\ run[r].res \in ApplyFailures
    /\ run[r].idx = 2 /\ Len(run[r].work) = 3
    /\ Len(db.ledger) = 1

\* The runner is about to apply a migration that has no script for the
\* requested direction.
AtEmptyScript(r) ==
  /\ run[r].pc = "apply"
  /\ SqlFor(run[r].work[run[r].idx], run[r].dirn) = ""

\* C9: a migration whose script for the requested direction is empty is
\* never passed over: applying it makes the operation return the
\* missing-script error, no transaction is begun for it, and the database
\* is left as it was.
C9_EmptyScriptFails ==
  /\ [](\A r \in Runners :
          /\ run[r].txOpen => SqlFor(run[r].work[run[r].idx], run[r].dirn) # ""
          /\ (run[r].pc = "done" /\ run[r].res = "ok") =>
               \A j \in 1..Len(run[r].work) : SqlFor(run[r].work[j], run[r].dirn) # "")
  /\ [][\A r \in Runners :
          AtEmptyScript(r) =>
            /\ run'[r].pc = "done" /\ run'[r].res = "missing_script"
            /\ run'[r].idx = run[r].idx
            /\ ~run'[r].txOpen /\ h'[r].begun = h[r].begun
            /\ db' = db]_vars

\* A Reset that stopped at a migration without a down-script, its row still
\* in the ledger.
C9_Witness ==
  \E r \in Runners :
    /\ run[r].op = "reset" /\ run[r].pc = "done" /\ run[r].res = "missing_script"
    /\ run[r].work[run[r].idx].Version \in LedgerVersions(db)
    /\ run[r].idx \notin h[r].begun

\* C10: in every state the versions with a ledger row are the versions
\* whose up-script effect is live in the schema, and no part of a script
\* that did not commit is in the schema.
C10_LedgerMatchesSchema ==
  /\ LedgerVersions(db) = LiveVersions(db)
  /\ \A e \in db.schema : e.part = "up"

\* After a failed transaction and a successful Down, a row is left.
C10_Witness ==
  \E r \in Runners :
    /\ run[r].op = "down" /\ run[r].pc = "done" /\ run[r].res = "ok"
    /\ LedgerVersions(db) = {1} /\ LiveVersions(db) = {1}
    /\ LedgerVersions(h[r].db0) = {1, 2}

\* C11: when the ledger's greatest version has no Migration in the loaded
\* catalog, Down fails with the migration-file-missing error: it takes no
\* lower applied version instead, begins no transaction, runs no script and
\* leaves the database as it was.
C11_DownFailsOnMissingFile ==
  \A r \in Runners :
    /\ (/\ run[r].op = "down" /\ run[r].pc = "done"
        /\ h[r].loaded /\ run[r].res # "load"
        /\ run[r].lastVersion \notin CatalogVersions(dir))
       => /\ run[r].res = "file_missing"
          /\ run[r].lastVersion = MaxOf(LedgerVersions(h[r].db0))
          /\ run[r].work = <<>>
          /\ h[r].begun = {} /\ h[r].execd = <<>>
          /\ db.ledger = h[r].db0.ledger /\ db.schema = h[r].db0.schema
    /\ (run[r].op = "down" /\ run[r].work # <<>>) =>
          run[r].work[1].Version = MaxOf(LedgerVersions(h[r].db0))

\* Down failed for version 2 although version 1, applied too, has a down
\* file in the catalog.
C11_Witness ==
  \E r \in Runners :
    /\ run[r].op = "down" /\ run[r].pc = "done" /\ run[r].res = "file_missing"
    /\ LedgerVersions(db) = {1, 2}
    /\ run[r].lastVersion = 2
    /\ \E i \in 1..Len(run[r].migrations) :
         run[r].migrations[i].Version = 1 /\ run[r].migrations[i].DownSQL # ""

\* Every version of the ledger has a down file with statements in d.
DownFilesFor(d, ledgerVersions) ==
  \A v \in ledgerVersions : ScriptOf(d, v, DownSuffix) # ""

\* C12: Reset rolls the applied versions back in strictly descending version
\* order, one transaction per version; when every applied version has a
\* catalog migration with a down file and no database call fails, Reset
\* returns success and the ledger is empty.
C12_ResetRollsBackAll ==
  \A r \in Runners :
    run[r].op = "reset" =>
      /\ \A i, j \in 1..Len(h[r].execd) :
           i < j => h[r].execd[i][2] > h[r].execd[j][2]
      /\ Cardinality(h[r].begun) <= Len(run[r].versions)
      /\ (/\ run[r].pc = "done" /\ ~h[r].faulted
          /\ DownFilesFor(dir, LedgerVersions(h[r].db0)))
         => run[r].res = "ok" /\ db.ledger = <<>>

VersionsOf(ms) == {ms[i].Version : i \in 1..Len(ms)}

\* C13: during Reset an applied version without a Migration in the catalog
\* is passed over: no transaction is begun and no script run for it, its
\* row and its schema effect stay, the versions below it that the catalog
\* holds are still rolled back, and Reset returns success with exactly the
\* passed-over rows left.
C13_ResetSkipsMissingFile ==
  \A r \in Runners :
    (run[r].op = "reset" /\ h[r].loaded /\ run[r].res # "load") =>
      /\ run[r].skipped = LedgerVersions(h[r].db0) \ CatalogVersions(dir)
      /\ run[r].skipped \subseteq LedgerVersions(db)
      /\ run[r].skipped \subseteq LiveVersions(db)
      /\ VersionsOf(run[r].work) = LedgerVersions(h[r].db0) \cap CatalogVersions(dir)
      /\ \A i \in 1..Len(h[r].execd) : h[r].execd[i][2] \notin run[r].skipped
      /\ \A i \in h[r].begun : run[r].work[i].Version \notin run[r].skipped
      /\ (run[r].pc = "done" /\ run[r].res = "ok") =>
           LedgerVersions(db) = run[r].skipped

\* Reset passed over version 2, rolled version 1 back and returned success
\* with the row of version 2 left.
C13_Witness ==
  \E r \in Runners :
    /\ run[r].op = "reset" /\ run[r].pc = "done" /\ run[r].res = "ok"
    /\ run[r].skipped = {2}
    /\ h[r].execd = <<<<1, 1, "down">>>>
    /\ LedgerVersions(h[r].db0) = {1, 2}
    /\ LedgerVersions(db) = {2}

\* C14: Down on an empty ledger loads no catalog, begins no transaction,
\* runs no script and leaves ledger and schema as they were; it returns
\* success unless the table bootstrap or its query fails.
C14_DownOnEmptyLedger ==
  \A r \in Runners :
    (run[r].op = "down" /\ h[r].db0.ledger = <<>>) =>
      /\ ~h[r].loaded /\ run[r].migrations = <<>>
      /\ h[r].begun = {} /\ h[r].execd = <<>> /\ ~run[r].txOpen
      /\ db.ledger = <<>> /\ db.schema = h[r].db0.schema
      /\ run[r].pc = "done" =>
           \/ run[r].res = "ok" /\ h[r].read /\ ~h[r].faulted
           \/ run[r].res \in {"bootstrap", "query"} /\ h[r].faulted

\* Down returned success on an empty ledger with migration files on disk.
C14_Witness ==
  \E r \in Runners :
    /\ run[r].op = "down" /\ run[r].pc = "done" /\ run[r].res = "ok"
    /\ h[r].db0.ledger = <<>> /\ h[r].db0.table
    /\ \E f \in dir : f.name.suffix = DownSuffix /\ TrimSpace(f.content) # ""

\* The number of entries of a catalog that equal m.
CountOf(ms, m) == Cardinality({i \in 1..Len(ms) : ms[i] = m})

\* C15: a file that does not parse is left out with a warning and does not
\* fail the load: the catalog holds one entry for every other ".sql" file
\* of the directory and none for the file left out; the load fails only
\* when the directory walk itself fails.
C15_LoadIsolatesInvalidFiles ==
  \A r \in Runners :
    /\ (h[r].loaded /\ run[r].op \in Ops) =>
         /\ \A f \in dir :
              f \in Warned(dir) <=>
                (f.name.suffix \in SqlSuffixes /\ ~parseMigrationFile(f).ok)
         /\ Len(run[r].migrations) = Cardinality(Walked(dir) \ Warned(dir))
         /\ \A f \in Walked(dir) \ Warned(dir) :
              CountOf(run[r].migrations, parseMigrationFile(f).m) =
                Cardinality({g \in Walked(dir) \ Warned(dir) :
                               parseMigrationFile(g).m = parseMigrationFile(f).m})
    /\ (run[r].pc = "done" /\ run[r].res = "load") =>
         h[r].faulted /\ ~h[r].loaded

\* A load that left out abc_a.up.sql and kept the two files of version 1.
C15_Witness ==
  \E r \in Runners :
    /\ h[r].loaded /\ run[r].pc = "done" /\ run[r].res = "ok"
    /\ \E f \in Warned(dir) : f.name.vtok = "abc" /\ f.name.suffix = UpSuffix
    /\ Len(run[r].migrations) = 2
    /\ \A i \in 1..2 : run[r].migrations[i].Version = 1

\* C16: the loaded catalog is strictly ascending by version: each entry's
\* version is smaller than the next entry's.
C16_CatalogStrictlyAscending ==
  \A r \in Runners :
    h[r].loaded =>
      \A i \in 1..(Len(run[r].migrations) - 1) :
        run[r].migrations[i].Version < run[r].migrations[i + 1].Version

\* The versions for which the directory holds two files of one direction,
\* each with a script.
DuplicateVersions(d, suffix) ==
  {FileVersion(f) : f \in
     {x \in Parseable(d) :
        /\ x.name.suffix = suffix /\ TrimSpace(x.content) # ""
        /\ \E y \in Parseable(d) :
             /\ y # x /\ y.name.suffix = suffix /\ TrimSpace(y.content) # ""
             /\ FileVersion(y) = FileVersion(x)}}

\* C17: when two files give the same version a script of the same
\* direction, an Up, Down or Reset that comes to apply that version in that
\* direction returns an error: it never picks one of the two in silence.
C17_DuplicateVersionRejected ==
  \A r \in Runners :
    (/\ run[r].op \in {"up", "down", "reset"}
     /\ run[r].pc = "done"
     /\ \E i \in 1..Len(h[r].execd) :
          h[r].execd[i][2] \in
            DuplicateVersions(dir, IF run[r].dirn = "up" THEN UpSuffix ELSE DownSuffix))
      => run[r].res # "ok"

\* C18: a Status that succeeds reports every catalog version exactly once,
\* as applied when the ledger has its row and pending otherwise, and
\* reports nothing for a ledger version without a file.
C18_StatusOneEntryPerVersion ==
  \A r \in Runners :
    (run[r].op = "status" /\ run[r].pc = "done" /\ run[r].res = "ok") =>
      /\ \A v \in CatalogVersions(dir) :
           /\ Cardinality({i \in 1..Len(run[r].report) :
                             run[r].report[i].version = v}) = 1
           /\ StatusOf(run[r].report, v) =
                {IF v \in LedgerVersions(db) THEN "applied" ELSE "pending"}
      /\ \A i \in 1..Len(run[r].report) :
           run[r].report[i].version \in CatalogVersions(dir)

\* C19: apart from creating the ledger table, Status changes nothing,
\* whether it succeeds or fails: it begins no transaction, runs no script
\* and leaves the ledger rows and the schema as they were.
C19_StatusChangesNothing ==
  \A r \in Runners :
    run[r].op = "status" =>
      /\ h[r].begun = {} /\ h[r].execd = <<>>
      /\ ~run[r].txOpen /\ run[r].tx = <<>>
      /\ db.ledger = h[r].db0.ledger
      /\ db.schema = h[r].db0.schema
      /\ h[r].db0.table => db = h[r].db0

\* Status returned over a ledger with version 1 applied and version 2
\* pending.
C19_Witness ==
  \E r \in Runners :
    /\ run[r].op = "status" /\ run[r].pc = "done" /\ run[r].res = "ok"
    /\ LedgerVersions(db) = {1}
    /\ StatusOf(run[r].report, 1) = {"applied"}
    /\ StatusOf(run[r].report, 2) = {"pending"}

\* C20 as stated: Status fails only when the bootstrap or the catalog load
\* fails; it succeeds even when the applied versions cannot be read.
C20_StatusFailsOnlyOnBootstrapOrLoad ==
  \A r \in Runners :
    (run[r].op = "status" /\ run[r].pc = "done" /\ run[r].res # "ok") =>
      run[r].res \in {"bootstrap", "load"}

\* C20 amended: Status fails exactly when the bootstrap, the catalog load
\* or the read of the applied versions fails, and returns that step's
\* error; in every other situation it succeeds.
C20_StatusFailsOnlyOnSetup ==
  \A r \in Runners :
    (run[r].op = "status" /\ run[r].pc = "done") =>
      /\ run[r].res \in {"ok", "bootstrap", "load", "query"}
      /\ run[r].res = "ok" <=> ~h[r].faulted
      /\ run[r].res = "ok" => h[r].loaded /\ h[r].read
      /\ run[r].res \in {"bootstrap", "load"} => ~h[r].loaded
      /\ run[r].res = "query" => h[r].loaded /\ ~h[r].read

\* Status failed at the read of the applied versions, after the bootstrap
\* and the load succeeded, over a ledger that holds a version without file.
C20_Witness ==
  \E r \in Runners :
    /\ run[r].op = "status" /\ run[r].pc = "done" /\ run[r].res = "query"
    /\ db.table /\ h[r].loaded
    /\ LedgerVersions(db) \ CatalogVersions(dir) # {}

\* The versions of the entries of work before position i.
DoneBefore(work, i) == {work[j].Version : j \in 1..(i - 1)}

\* When the context is done while a migration's transaction of Up is in
\* flight, that transaction never commits, Up fails, and what the same Up
\* committed before stays.
CancelledUpRollsBack ==
  \A r \in Runners :
    (run[r].op = "up" /\ h[r].cancelledAt # 0) =>
      /\ db = h[r].txdb
      /\ LedgerVersions(db) =
           LedgerVersions(h[r].db0) \cup DoneBefore(run[r].work, h[r].cancelledAt)
      /\ run[r].pc = "done" =>
           run[r].res \in TxFailures /\ run[r].idx = h[r].cancelledAt

\* C21: when the context is done while a migration's transaction of Up is
\* in flight, that transaction is rolled back, Up fails and the earlier
\* commits of the same Up stay; the next Up, under a fresh context, takes
\* as pending the catalog versions without a ledger row and, when nothing
\* else fails, applies them all and succeeds.
C21_CancelledUpIsResumable ==
  /\ CancelledUpRollsBack
  /\ \A r \in Runners :
       (run[r].op = "up" /\ h[r].afterCancel /\ h[r].read) =>
         /\ VersionsOf(run[r].work) = CatalogVersions(dir) \ LedgerVersions(h[r].db0)
         /\ (run[r].pc = "done" /\ ~h[r].faulted /\ ~run[r].ctxDone) =>
              /\ run[r].res = "ok"
              /\ CatalogVersions(dir) \subseteq LedgerVersions(db)

\* C22: when ensureMigrationsTable fails, Up, Down, Status and Reset each
\* return that failure at once: no catalog load, no ledger read, no
\* transaction, no script, and the database is as it was.
C22_BootstrapFailureAborts ==
  \A r \in Runners :
    (run[r].op \in Ops /\ run[r].pc # "ensure" /\ ~h[r].bootstrapped) =>
      /\ run[r].pc = "done" /\ run[r].res = "bootstrap"
      /\ ~h[r].loaded /\ ~h[r].read
      /\ run[r].migrations = <<>> /\ run[r].work = <<>>
      /\ h[r].begun = {} /\ h[r].execd = <<>> /\ ~run[r].txOpen
      /\ db = h[r].db0

\* Reset failed at the bootstrap over a ledger with rows and a directory
\* with their down files.
C22_Witness ==
  \E r \in Runners :
    /\ run[r].op = "reset" /\ run[r].pc = "done" /\ run[r].res = "bootstrap"
    /\ LedgerVersions(db) # {}
    /\ DownFilesFor(dir, LedgerVersions(db))

\* C23: ensureMigrationsTable, run any number of times, one call after
\* another or between the calls of another invocation, leaves the table
\* existing once it succeeded and never adds, removes or alters a row.
C23_BootstrapIdempotent ==
  /\ [](\A r \in DOMAIN run : h[r].bootstrapped => db.table)
  /\ [][\A r \in DOMAIN run :
          (run[r].pc = "ensure" /\ run'[r].pc # "ensure") =>
            /\ db'.ledger = db.ledger /\ db'.schema = db.schema
            /\ db.table => db' = db
            /\ CreateTableIfNotExists(db') = db' \/ run'[r].res = "bootstrap"]_vars

\* Both invocations have run the bootstrap, the second over a ledger that
\* the first one's Up has already written to.
C23_Witness ==
  /\ \A r \in DOMAIN run : h[r].bootstrapped /\ run[r].pc \notin {"idle", "done"}
  /\ \E r \in DOMAIN run : h[r].db0.ledger # <<>>
  /\ \E r \in DOMAIN run : h[r].db0.ledger = <<>> /\ run[r].pc = "commit"
  /\ db.ledger # <<>>

\* C24: the parser accepts a file only when its name ends in .up.sql or
\* .down.sql; any other name, one that ends in plain .sql included, is
\* rejected as an invalid filename and gives the catalog no entry.
C24_OnlyDirectionSuffixesAccepted ==
  /\ \A f \in dir :
       /\ parseMigrationFile(f).ok => f.name.suffix \in {UpSuffix, DownSuffix}
       /\ f.name.suffix \notin {UpSuffix, DownSuffix} =>
            /\ ~parseMigrationFile(f).ok
            /\ parseMigrationFile(f).err = "InvalidFilename"
            /\ parseMigrationFile(f).m = NoMigration
  /\ \A r \in Runners :
       h[r].loaded =>
         Len(run[r].migrations) =
           Cardinality({f \in dir : /\ f.name.suffix \in {UpSuffix, DownSuffix}
                                    /\ Atoi(f.name.vtok).ok})

\* A catalog loaded from 1_a.sql and 1_a.up.sql holds the one entry of the
\* up file.
C24_Witness ==
  \E r \in Runners :
    /\ h[r].loaded /\ Len(run[r].migrations) = 1
    /\ run[r].migrations[1].UpSQL # ""
    /\ \E f \in dir : f.name.suffix = ".sql" /\ f.name.vtok = VersionToken(1)
    /\ \E f \in dir : f.name.suffix = UpSuffix /\ f.name.vtok = VersionToken(1)

\* C25: every entry of the loaded catalog has a positive version; a file
\* whose leading token is no integer, or is zero or negative, is rejected
\* as an invalid version and left out.
C25_VersionsArePositive ==
  \A r \in Runners :
    h[r].loaded =>
      /\ \A i \in 1..Len(run[r].migrations) : run[r].migrations[i].Version > 0
      /\ \A f \in dir :
           (/\ f.name.suffix \in {UpSuffix, DownSuffix}
            /\ f.name.vtok \in {"abc", "0", "-1"}) =>
             ~parseMigrationFile(f).ok /\ parseMigrationFile(f).err = "InvalidVersion"

HasUnderscore(s) == \E i \in 1..Len(s) : s[i] = "_"

\* What follows the first underscore of a basename.
AfterFirstUnderscore(s) ==
  LET i == CHOOSE k \in 1..Len(s) : s[k] = "_" /\ \A j \in 1..(k - 1) : s[j] # "_"
  IN  SubSeq(s, i + 1, Len(s))

\* C26: for an accepted file the name is what follows the first underscore
\* of the basename, later underscores kept; a basename without underscore is
\* rejected; the script is the content without the whitespace around it, so
\* a file of whitespace only gives an empty script on its side.
C26_NameAndScript ==
  \A r \in Runners :
    h[r].loaded =>
      \A f \in dir :
        LET p == parseMigrationFile(f)
            b == BaseName(f.name)
            script == IF f.name.suffix = UpSuffix THEN p.m.UpSQL ELSE p.m.DownSQL
            other == IF f.name.suffix = UpSuffix THEN p.m.DownSQL ELSE p.m.UpSQL
        IN  /\ ~HasUnderscore(b) => ~p.ok /\ p.err = "InvalidFormat"
            /\ ~p.ok => run[r].migrations = <<>>
            /\ p.ok =>
                 /\ run[r].migrations = <<p.m>>
                 /\ HasUnderscore(b)
                 /\ p.m.Name = Str(AfterFirstUnderscore(b))
                 /\ other = ""
                 /\ f.content = " " => script = ""
                 /\ f.content \in {"sql", " sql "} => script = "sql"

\* The catalog loaded from 1_a_b.up.sql, whose content has whitespace
\* around its statements.
C26_Witness ==
  \E r \in Runners :
    /\ h[r].loaded
    /\ \E f \in dir : f.name.base = <<"1", "_", "a", "_", "b">> /\ f.content = " sql "
    /\ run[r].migrations = <<[Version |-> 1, Name |-> "a_b", UpSQL |-> "sql", DownSQL |-> ""]>>

\* The failures of one particular migration.
MigrationFailures == ApplyFailures \cup {"file_missing"}

\* C27: an error that Up, Down or Reset returns because one migration
\* failed tells that migration's version, name and direction.
C27_ErrorsIdentifyMigration ==
  \A r \in Runners :
    (/\ run[r].op \in {"up", "down", "reset"}
     /\ run[r].pc = "done"
     /\ run[r].res \in MigrationFailures) =>
      /\ run[r].errInfo.has = {"version", "name", "direction"}
      /\ run[r].res # "file_missing" =>
           /\ run[r].errInfo.version = run[r].work[run[r].idx].Version
           /\ run[r].errInfo.name = run[r].work[run[r].idx].Name
           /\ run[r].errInfo.direction = run[r].dirn

\* C28: a file written by `make create-migration NAME=x` is a migration
\* of the runner: the next load has an entry for it and the next Up that
\* succeeds has applied it.
C28_CreatedFileIsMigration ==
  \A r \in Runners :
    \A f \in dir \cap MakeFiles :
      /\ h[r].loaded =>
           \E i \in 1..Len(run[r].migrations) :
             /\ ToString(run[r].migrations[i].Version) = f.name.vtok
             /\ run[r].migrations[i].Name = f.name.rest
      /\ (run[r].op = "up" /\ run[r].pc = "done" /\ run[r].res = "ok") =>
           \E v \in LedgerVersions(db) : ToString(v) = f.name.vtok

\* C29: Up takes its pending list once, from the rows committed when it
\* reads the ledger, and keeps it to its end whatever another invocation
\* commits meanwhile; so two Up runs can read the same rows, hold the same
\* version as pending, both run its up-script and both come to insert its
\* row (the state of C29_Witness).
C29_UpKeepsItsSnapshot ==
  [][\A r \in DOMAIN run :
       /\ (run[r].op = "up" /\ run[r].pc = "getApplied" /\ run'[r].pc = "apply") =>
            /\ run'[r].applied = LedgerVersions(db)
            /\ VersionsOf(run'[r].work) =
                 VersionsOf(run[r].migrations) \ LedgerVersions(db)
       /\ (run[r].op = "up" /\ run[r].pc \notin {"getApplied", "done"}
           /\ run[r].work # <<>>) =>
            /\ run'[r].work = run[r].work
            /\ run'[r].applied = run[r].applied]_vars

\* Both runners read the empty ledger, both ran the up-script of the same
\* version, one has its INSERT staged and the other is at its INSERT.
C29_Witness ==
  \E v \in Versions :
    /\ \A r \in DOMAIN run :
         /\ run[r].op = "up" /\ run[r].applied = {} /\ h[r].read
         /\ run[r].txOpen
         /\ run[r].work[run[r].idx].Version = v
         /\ \E i \in 1..Len(h[r].execd) : h[r].execd[i][2] = v
         /\ run[r].tx # <<>> /\ run[r].tx[1] = ScriptOp(v, "up", TRUE)
    /\ \E r \in DOMAIN run : run[r].pc = "commit"
    /\ \E r \in DOMAIN run : run[r].pc = "execLedger"
    /\ Cardinality(DOMAIN run) = 2

\* C30: however two Up runs interleave, the ledger has at most one row
\* per version and no version's up-script is committed while its effect is
\* live: the row and the script commit together, version is the primary
\* key, so of two runners at the same version one commits and the other's
\* INSERT fails, its transaction is rolled back and its Up returns an error.
C30_OneRowPerVersion ==
  /\ \A i, j \in 1..Len(db.ledger) :
       db.ledger[i].version = db.ledger[j].version => i = j
  /\ LedgerVersions(db) = LiveVersions(db)
  /\ \A r \in DOMAIN run :
       /\ ~h[r].doubled
       /\ h[r].committed \cap LedgerVersions(h[r].db0) = {}
       /\ \A o \in DOMAIN run \ {r} : h[r].committed \cap h[o].committed = {}
       /\ (run[r].op = "up" /\ run[r].pc = "done" /\ run[r].res = "ok") =>
            VersionsOf(run[r].work) = h[r].committed
       /\ (run[r].op = "up" /\ run[r].pc = "done"
           /\ VersionsOf(run[r].work) # h[r].committed) =>
            /\ run[r].res # "ok"
            /\ ~run[r].txOpen /\ run[r].tx = <<>>

\* One runner committed version 1; the other, which had run the same
\* up-script, failed at its INSERT without any fault of the database and
\* returned that error; the ledger holds the one row.
C30_Witness ==
  \E r \in DOMAIN run : \E o \in DOMAIN run \ {r} :
    /\ run[r].op = "up" /\ run[r].pc = "done" /\ run[r].res = "ledger"
    /\ ~h[r].faulted
    /\ \E i \in 1..Len(h[r].execd) : h[r].execd[i][2] = 1
    /\ 1 \in h[o].committed
    /\ 1 \notin h[r].committed
    /\ Len(SelectSeq(db.ledger, LAMBDA row : row.version = 1)) = 1

\* C31: within one Up, Down or Reset the catalog load and the ledger read
\* come before the first transaction, at most one transaction is open at
\* any time, and a transaction is over before the next one begins and
\* before the operation returns.
C31_StrictlySequential ==
  /\ [](\A r \in Runners :
          /\ h[r].open \in {0, 1}
          /\ h[r].open = 1 <=> run[r].txOpen
          /\ h[r].begun # {} => h[r].loaded /\ h[r].read
          /\ run[r].pc \in {"idle", "done", "apply"} => h[r].open = 0)
  /\ [][\A r \in Runners :
          (h'[r].begun # h[r].begun /\ run[r].pc # "done") =>
            /\ h[r].open = 0 /\ h'[r].open = 1
            /\ h'[r].begun = h[r].begun \cup {run[r].idx}
            /\ \A i \in h[r].begun : i < run[r].idx]_vars

\* Reset is in its second transaction, the first one committed.
C31_Witness ==
  \E r \in Runners :
    /\ run[r].op = "reset" /\ h[r].begun = {1, 2}
    /\ h[r].open = 1 /\ run[r].pc = "execLedger"
    /\ Len(db.ledger) = Len(h[r].db0.ledger) - 1

\* C32: an INSERT into or DELETE from the ledger is issued only inside an
\* open transaction, after the script of the same migration and direction
\* ran to its end in that transaction; the ledger rows change only when
\* such a transaction commits.
C32_LedgerWritesInsideTransaction ==
  /\ [](\A r \in Runners : \A i \in 1..Len(run[r].tx) :
          run[r].tx[i].kind \in {"insert", "delete"} =>
            /\ run[r].txOpen /\ run[r].op \in {"up", "down", "reset"}
            /\ i = 2 /\ Len(run[r].tx) = 2
            /\ run[r].tx[1] = ScriptOp(run[r].tx[i].version, run[r].dirn, TRUE)
            /\ run[r].tx[i].version = run[r].work[run[r].idx].Version
            /\ run[r].tx[i].kind = IF run[r].dirn = "up" THEN "insert" ELSE "delete")
  /\ [][db'.ledger # db.ledger =>
          \E r \in Runners :
            /\ run[r].pc = "commit" /\ run[r].txOpen
            /\ Len(run[r].tx) = 2 /\ run[r].tx[1].kind = "script" /\ run[r].tx[1].whole
            /\ db' = ApplyOps(db, run[r].tx)]_vars

\* Reset has staged the DELETE of version 2 behind its down-script.
C32_Witness ==
  \E r \in Runners :
    /\ run[r].op = "reset" /\ run[r].pc = "commit" /\ run[r].txOpen
    /\ run[r].tx = <<ScriptOp(2, "down", TRUE), DeleteOp(2)>>

\* C33: when every applied version has catalog files, Reset picks for each
\* version the catalog entry that Down picks for it on the same catalog, so
\* that it runs the down-scripts Down would run and ends as repeated Down
\* would end: in success, with an empty ledger, unless a database call
\* failed.
C33_ResetIsRepeatedDown ==
  \A r \in Runners :
    (/\ run[r].op = "reset" /\ h[r].loaded /\ run[r].res # "load"
     /\ LedgerVersions(h[r].db0) \subseteq CatalogVersions(dir)) =>
      /\ \A i \in 1..Len(run[r].work) :
           <<run[r].work[i]>> = TargetMigration(run[r].migrations, run[r].work[i].Version)
      /\ (run[r].pc = "done" /\ ~h[r].faulted) =>
           \/ run[r].res = "ok" /\ db.ledger = <<>>
           \/ /\ run[r].res = "missing_script"
              /\ SqlFor(TargetMigration(run[r].migrations,
                                        run[r].work[run[r].idx].Version)[1], "down") = ""

\* C34: Reset stops at the first roll back that fails. Its error names the
\* version v it failed at; the applied versions above v that the catalog
\* holds have lost their rows; the rows of v and of every applied version
\* below v are still in the ledger, and no transaction was begun for the
\* versions below v.
C34_ResetFailFast ==
  \A r \in Runners :
    (run[r].op = "reset" /\ run[r].pc = "done" /\ run[r].res \in ApplyFailures) =>
      /\ run[r].idx \in 1..Len(run[r].work)
      /\ LET v == run[r].work[run[r].idx].Version
         IN /\ "version" \in run[r].errInfo.has /\ run[r].errInfo.version = v
            /\ \A w \in LedgerVersions(h[r].db0) :
                 /\ (w > v /\ w \in CatalogVersions(dir)) => w \notin LedgerVersions(db)
                 /\ w <= v => w \in LedgerVersions(db)
            /\ \A i \in h[r].begun : run[r].work[i].Version >= v
            /\ \A i \in 1..Len(h[r].execd) : run[r].work[h[r].execd[i][1]].Version >= v

\* A Reset of two applied versions that rolled back the higher one and then
\* failed at the lower one, whose row is still there.
C34_Witness ==
  \E r \in Runners :
    /\ run[r].op = "reset" /\ run[r].pc = "done" /\ run[r].res \in ApplyFailures
    /\ run[r].idx = 2
    /\ LedgerVersions(h[r].db0) = {1, 2}
    /\ LedgerVersions(db) = {1}

\* C35: Up applies every catalog version that has no ledger row, also one
\* below a version that has a row, so that rows can be inserted out of
\* numeric order; Down rolls back the greatest version of the ledger, which
\* need not be the one inserted last.
C35_UpFillsGaps ==
  \A r \in Runners :
    /\ (run[r].op = "up" /\ h[r].read) =>
         /\ run[r].applied = LedgerVersions(h[r].db0)
         /\ \A v \in VersionsOf(run[r].migrations) \ run[r].applied :
              /\ \E i \in 1..Len(run[r].work) : run[r].work[i].Version = v
              /\ (run[r].pc = "done" /\ run[r].res = "ok") =>
                   /\ v \in LedgerVersions(db)
                   /\ \E i \in 1..Len(h[r].execd) :
                        h[r].execd[i][2] = v /\ h[r].execd[i][3] = "up"
    /\ (run[r].op = "down" /\ h[r].execd # <<>>) =>
         /\ h[r].execd[1][2] = MaxOf(LedgerVersions(h[r].db0))
         /\ (run[r].pc = "done" /\ run[r].res = "ok") =>
              LedgerVersions(db) =
                LedgerVersions(h[r].db0) \ {MaxOf(LedgerVersions(h[r].db0))}

\* A Down that succeeded on a ledger whose rows were inserted out of numeric
\* order, version 2 before version 1: the row of version 1, inserted last by
\* a gap-filling Up, is the one that is left.
C35_Witness ==
  \E r \in Runners :
    /\ run[r].op = "down" /\ run[r].pc = "done" /\ run[r].res = "ok"
    /\ Len(h[r].db0.ledger) = 2
    /\ h[r].db0.ledger[1].version = 2 /\ h[r].db0.ledger[2].version = 1
    /\ LedgerVersions(db) = {1}

\* C36: with one runner, no step of an Up removes a version from the ledger,
\* no step of a Down or a Reset adds one, and Up executes no script of a
\* version that the ledger held when Up read it.
C36_LedgerMonotone ==
  /\ [](\A r \in Runners :
          (run[r].op = "up" /\ h[r].read) =>
            \A i \in 1..Len(h[r].execd) :
              /\ h[r].execd[i][3] = "up"
              /\ h[r].execd[i][2] \notin run[r].applied
              /\ h[r].execd[i][2] \notin LedgerVersions(h[r].db0))
  /\ [][\A r \in Runners :
          /\ run[r].op = "up" => LedgerVersions(db) \subseteq LedgerVersions(db')
          /\ run[r].op \in {"down", "reset"} =>
               LedgerVersions(db') \subseteq LedgerVersions(db)]_vars

\* An Up whose ledger has grown by two versions and a Reset whose ledger has
\* shrunk by two are both reachable; this is the Reset.
C36_Witness ==
  \E r \in Runners :
    /\ run[r].op = "reset" /\ run[r].pc = "done"
    /\ LedgerVersions(h[r].db0) = {1, 2}
    /\ LedgerVersions(db) = {}
    /\ Len(h[r].execd) = 2

\* C37: every instrumented database call the runner issues returns to the
\* runner: no Agent method invoked around it panics, with metrics enabled or
\* disabled.
C37_InstrumentedCallsReturn ==
  \A r \in Runners :
    /\ run[r].pc # "panicked"
    /\ h[r].panicked = 0

\* C38: the reset command calls Migrator.Reset only when the operator's
\* answer is exactly "y" or "Y"; after any other answer Reset is not called,
\* the database is as it was, and the process ends reporting no error.
C38_ResetNeedsExactYes ==
  \A r \in Runners :
    /\ run[r].op = "reset" => h[r].answer \in {<<"y">>, <<"Y">>}
    /\ run[r].pc = "cancelled" =>
         /\ h[r].answer \notin {<<"y">>, <<"Y">>}
         /\ run[r].op = "none" /\ run[r].res = "none"
         /\ db = h[r].db0

\* C39: Config.String renders the password masked and leaves the Config it
\* was called on as it was: afterwards the Config still holds the real
\* password, and a DSN built afterwards carries it.
C39_StringLeavesConfigUnchanged ==
  \A r \in Runners :
    h[r].strings > 0 =>
      /\ run[r].rendered.password = "***"
      /\ run[r].heap[run[r].cfg.Database].Password = h[r].password
      /\ (h[r].dsnAfterString /\ run[r].dsn.format \in {"postgres", "mysql"}) =>
           run[r].dsn.password = h[r].password

=============================================================================
